---- MODULE Spec2Model ----
(***************************************************************************)
(* Model of jsonl_datasets: the size-rotating, resumable shard writer      *)
(* (writers.py) and the bounded-queue parallel line reader (io.py), as     *)
(* iterated directly, through multiple_files_lines_iterator, or by         *)
(* JsonlDatasetReader (readers.py).                                        *)
(*                                                                         *)
(* A shard file's content is a sequence of chunks: the separator NL        *)
(* (the byte b"\n") or the serialized form of one record.  orjson.dumps    *)
(* never emits a raw line break, so one serialized record is one chunk.    *)
(***************************************************************************)
EXTENDS Integers, Sequences, FiniteSets, TLC

\* ------------------------------------------------------------------ bounds
MaxShardSize == 2
MaxWrites == 4
MaxSessions == 3
NumFiles == 2
MaxLines == 2
MaxQueue == 2
MaxDatasetLines == 3
MaxCalls == 3

\* --------------------------------------------------------------- constants
\* f"{self.current_shard:05d}": the shard index is zero-padded to 5 digits.
PadWidth == 5

NL == "NL"
\* An item orjson.dumps cannot serialize (it raises before returning bytes).
Unserializable == "unserializable"
Items == {"r1", "r2"}
Inputs == Items \cup {Unserializable}

VARIABLES
  \* the directory: shard index -> content of that shard file
  dir,
  \* JsonlDatasetWriter fields
  max_shard_size, current_shard, num_samples, current_shard_file,
  \* history of the writer's use (not read by the writer)
  written, sessions, attempts, lastOp, misuse, sessionStart

wvars == <<dir, max_shard_size, current_shard, num_samples, current_shard_file,
           written, sessions, attempts, lastOp, misuse, sessionStart>>

VARIABLES
  \* the input: per path, the lines its source delivers and whether the
  \* source then raises instead of ending
  numLines, raises,
  \* how the parallel read is entered: "iterator" (ParallelLineIterator
  \* iterated by the caller), "wrapper" (multiple_files_lines_iterator) or
  \* "reader" (JsonlDatasetReader with read_strategy "parallel")
  via,
  \* ParallelLineIterator fields
  max_workers, queue_size, q, err_q, done_files, stop_event,
  \* line_feeder jobs: position in the code and lines pushed so far
  job, pos,
  \* the generator of __iter__: position, how it ended, the error it raised
  cpc, outcome, raised,
  \* what the caller has seen
  yielded, closeReturned, abandoned

rvars == <<numLines, raises, via, max_workers, queue_size, q, err_q, done_files,
           stop_event, job, pos, cpc, outcome, raised, yielded, closeReturned,
           abandoned>>

\* the input and configuration of a parallel read, fixed once chosen
params == <<numLines, raises, via, max_workers, queue_size>>

VARIABLES
  \* the files of the directory a JsonlDatasetReader was constructed on: per
  \* path the sequence of its lines, each well-formed JSON ("ok") or not
  file_lines,
  \* JsonlDatasetReader fields
  read_strategy, skip_on_error, len_cache,
  \* the last call on the reader, and its limit and what it gave the caller
  \* (the stream's, or the length's; the other is blank)
  lastCall, streamLimit, streamOut, lenReturn,
  \* history: calls made, passes started by __len__, and the dataset as
  \* the first __len__ call found it: its number of records and whether a
  \* full pass under the reader's decode policy meets no error
  calls, lenPasses, firstCount

avars == <<file_lines, read_strategy, skip_on_error, len_cache, lastCall,
           streamLimit, streamOut, lenReturn, calls, lenPasses, firstCount>>

vars == <<wvars, rvars, avars>>

\* ------------------------------------------------------- file name ordering
RECURSIVE Digits(_)
Digits(i) == IF i < 10 THEN <<i>> ELSE Append(Digits(i \div 10), i % 10)

RECURSIVE ZeroPad(_, _)
ZeroPad(s, w) == IF Len(s) >= w THEN s ELSE ZeroPad(<<0>> \o s, w)

\* The digits of f"{index:05d}"; prefix and extension are the same for all
\* shards of one writer, so the digits decide the order of the paths.
ShardName(i) == ZeroPad(Digits(i), PadWidth)

Min2(a, b) == IF a <= b THEN a ELSE b

SetMin(S) == CHOOSE x \in S : \A y \in S : x <= y

\* Lexicographic order of two names, as sorted() orders the paths.
NameLess(a, b) ==
  \E k \in 1..(Min2(Len(a), Len(b)) + 1) :
    /\ \A j \in 1..(k - 1) : a[j] = b[j]
    /\ \/ k > Len(a) /\ k <= Len(b)
       \/ k <= Len(a) /\ k <= Len(b) /\ a[k] < b[k]

\* existing_shards[-1]: the index of the shard whose path sorts last.
LastShard(d) ==
  CHOOSE i \in DOMAIN d :
    \A j \in DOMAIN d : j = i \/ NameLess(ShardName(j), ShardName(i))

\* ---------------------------------------------------------- file contents
\* sum(1 for _ in f) over a text file: one line per separator, plus one for
\* a last line that is not terminated.
CountLines(content) ==
  Cardinality({k \in 1..Len(content) : content[k] = NL})
    + (IF Len(content) > 0 /\ content[Len(content)] # NL THEN 1 ELSE 0)

\* orjson.dumps(item): the bytes of one record, free of line breaks.
CanDump(item) == item # Unserializable
Dumps(item) == <<item>>

\* open(filepath, "ab"): creates the file when it does not exist.
OpenAppend(d, i) ==
  IF i \in DOMAIN d THEN d ELSE [j \in DOMAIN d \cup {i} |-> IF j = i THEN <<>> ELSE d[j]]

AppendBytes(d, i, bytes) == [d EXCEPT ![i] = @ \o bytes]

\* ------------------------------------------------------- writer operations
\* The writer as a record w = [dir, current_shard, num_samples, file];
\* file is TRUE while current_shard_file holds an open handle.

\* _open_current_shard_file
OpenCurrentShardFile(w) ==
  [w EXCEPT !.dir = OpenAppend(w.dir, w.current_shard), !.file = TRUE]

\* a resume that forgets the records the last shard already holds
ResumePoint_ForgetCount(d, m) ==
  IF DOMAIN d # {}
  THEN LET count == CountLines(d[LastShard(d)])
           last == Cardinality(DOMAIN d) - 1
       IN IF count >= m THEN <<last + 1, 0>> ELSE <<last, 0>>
  ELSE <<0, 0>>

\* the resume decision of _initialize_shard: <<current_shard, num_samples>>
ResumePoint(d, m) ==
  IF DOMAIN d # {}
  THEN LET count == CountLines(d[LastShard(d)])
           last == Cardinality(DOMAIN d) - 1
       IN IF count >= m THEN <<last + 1, 0>> ELSE <<last, count>>
  ELSE <<0, 0>>

\* __init__ followed by _initialize_shard
InitializeShard(d, m) ==
  LET p == ResumePoint(d, m)
  IN OpenCurrentShardFile(
       [dir |-> d, current_shard |-> p[1], num_samples |-> p[2], file |-> FALSE])

\* a rotation test that lets one record too many into a shard
RotationNeeded_Late(n, m) == n > m

\* the test of _rotate_shard_if_needed
RotationNeeded(n, m) == n >= m

\* a rotation that opens the next shard without resetting the count
RotateShardIfNeeded_KeepCount(w, m) ==
  IF RotationNeeded(w.num_samples, m)
  THEN OpenCurrentShardFile([w EXCEPT !.current_shard = w.current_shard + 1])
  ELSE w

\* _rotate_shard_if_needed
RotateShardIfNeeded(w, m) ==
  IF RotationNeeded(w.num_samples, m)
  THEN OpenCurrentShardFile(
         [w EXCEPT !.current_shard = w.current_shard + 1, !.num_samples = 0])
  ELSE w

\* the separator step of write_line: if self.num_samples > 0: write(b"\n")
SeparatorNeeded(n) == n > 0

\* write_line(item): the writer after the call and how the call ended:
\*   "ok"               the record was appended and counted
\*   "closed_error"     current_shard_file is None (AttributeError on .write)
\*   "serialize_error"  orjson.dumps(item) raised
WriteLineResult(w, item, m) ==
  LET r == RotateShardIfNeeded(w, m)
  IN IF ~r.file
     THEN [w |-> r, outcome |-> "closed_error"]
     ELSE LET s == IF SeparatorNeeded(r.num_samples)
                   THEN [r EXCEPT !.dir = AppendBytes(r.dir, r.current_shard, <<NL>>)]
                   ELSE r
          IN IF ~CanDump(item)
             THEN [w |-> s, outcome |-> "serialize_error"]
             ELSE [w |-> [s EXCEPT !.dir = AppendBytes(s.dir, s.current_shard, Dumps(item)),
                                   !.num_samples = s.num_samples + 1],
                   outcome |-> "ok"]

\* close
CloseFile(w) == [w EXCEPT !.file = FALSE]

\* --------------------------------------------------------- writer actions
Writer == [dir |-> dir, current_shard |-> current_shard,
           num_samples |-> num_samples, file |-> current_shard_file]

SetWriter(w) ==
  /\ dir' = w.dir
  /\ current_shard' = w.current_shard
  /\ num_samples' = w.num_samples
  /\ current_shard_file' = w.file

EmptyDir == [i \in {} |-> <<>>]

\* JsonlDatasetWriter(directory, max_shard_size): a new writer on the
\* directory, once the previous one (if any) was closed.
Construct ==
  /\ ~current_shard_file
  /\ sessions < MaxSessions
  /\ SetWriter(InitializeShard(dir, max_shard_size))
  /\ sessions' = sessions + 1
  /\ sessionStart' = Len(written)
  /\ lastOp' = "construct"
  /\ UNCHANGED <<rvars, avars, max_shard_size, written, attempts, misuse>>

\* writer.write_line(item)
write_line ==
  /\ sessions > 0
  /\ attempts < MaxWrites
  /\ \E item \in Inputs :
       LET res == WriteLineResult(Writer, item, max_shard_size)
       IN /\ SetWriter(res.w)
          /\ lastOp' = res.outcome
          /\ written' = IF res.outcome = "ok" THEN Append(written, item) ELSE written
          /\ misuse' = (misuse \/ res.outcome # "ok" \/ ~current_shard_file)
  /\ attempts' = attempts + 1
  /\ UNCHANGED <<rvars, avars, max_shard_size, sessions, sessionStart>>

\* writer.close() (also __exit__)
close ==
  /\ sessions > 0
  /\ current_shard_file
  /\ SetWriter(CloseFile(Writer))
  /\ lastOp' = "close"
  /\ UNCHANGED <<rvars, avars, max_shard_size, written, sessions, attempts, misuse,
                 sessionStart>>

\* ================================================= parallel line reader
Paths == 1..NumFiles

\* _SENTINEL, the completion marker; a line is <<path, number>>
SENTINEL == <<0, 0>>
Line(f, k) == <<f, k>>

\* the number of lines the sources of the paths in S deliver together
RECURSIVE TotalLines(_, _)
TotalLines(n, S) ==
  IF S = {} THEN 0 ELSE n[SetMin(S)] + TotalLines(n, S \ {SetMin(S)})

\* errors: none, the exception the source of path f raised, and the error
\* the with statement raises on a class without __enter__/__exit__
NoError == <<"none", 0>>
SourceError(f) == <<"source", f>>
NoContextManager == <<"no_context_manager", 0>>

\* min(self.max_workers, num_files)
ResolvedWorkers == Min2(max_workers, NumFiles)

\* the mutation: a put goes through on a queue that is exactly full
QueueFull_OneOver(queue) == Len(queue) > queue_size

\* Queue(maxsize).put blocks while the queue is full
QueueFull(queue) == Len(queue) >= queue_size

Running(f) == job[f] \in {"next", "put", "except", "finally"}
Terminated(f) == job[f] \in {"unsubmitted", "done"}

\* ------------------------------------------------------------------- jobs
\* A pool thread takes the next work item: items are taken in submission
\* order, by at most ResolvedWorkers threads.
JobStart(f) ==
  /\ job[f] = "queued"
  /\ \A g \in Paths : g < f => job[g] # "queued"
  /\ Cardinality({g \in Paths : Running(g)}) < ResolvedWorkers
  /\ job' = [job EXCEPT ![f] = "next"]
  /\ UNCHANGED <<wvars, avars, params, q, err_q,
                 done_files, stop_event, pos, cpc, outcome, raised, yielded,
                 closeReturned, abandoned>>

\* the mutation: a job that sees the stop flag leaves without its marker
AfterNext_NoMarkerOnStop(f, stop) ==
  IF pos[f] < numLines[f]
  THEN IF stop THEN "done" ELSE "put"
  ELSE IF raises[f] THEN "except" ELSE "finally"

\* what the job does after asking its source for the next line
AfterNext(f, stop) ==
  IF pos[f] < numLines[f]
  THEN IF stop THEN "finally" ELSE "put"
  ELSE IF raises[f] THEN "except" ELSE "finally"

\* for line in iter_lines(file_path): if self._stop_event.is_set(): return
JobNext(f) ==
  /\ job[f] = "next"
  /\ job' = [job EXCEPT ![f] = AfterNext(f, stop_event)]
  /\ UNCHANGED <<wvars, avars, params, q, err_q,
                 done_files, stop_event, pos, cpc, outcome, raised, yielded,
                 closeReturned, abandoned>>

\* self.q.put(line)
JobPut(f) ==
  /\ job[f] = "put"
  /\ ~QueueFull(q)
  /\ q' = Append(q, Line(f, pos[f] + 1))
  /\ pos' = [pos EXCEPT ![f] = @ + 1]
  /\ job' = [job EXCEPT ![f] = "next"]
  /\ UNCHANGED <<wvars, avars, params, err_q,
                 done_files, stop_event, cpc, outcome, raised, yielded,
                 closeReturned, abandoned>>

\* except Exception as e: self.err_q.put(e)
JobExcept(f) ==
  /\ job[f] = "except"
  /\ err_q' = Append(err_q, SourceError(f))
  /\ job' = [job EXCEPT ![f] = "finally"]
  /\ UNCHANGED <<wvars, avars, params, q,
                 done_files, stop_event, pos, cpc, outcome, raised, yielded,
                 closeReturned, abandoned>>

\* finally: self.q.put(_SENTINEL)
JobFinally(f) ==
  /\ job[f] = "finally"
  /\ ~QueueFull(q)
  /\ q' = Append(q, SENTINEL)
  /\ job' = [job EXCEPT ![f] = "done"]
  /\ UNCHANGED <<wvars, avars, params, err_q,
                 done_files, stop_event, pos, cpc, outcome, raised, yielded,
                 closeReturned, abandoned>>

line_feeder(f) ==
  JobStart(f) \/ JobNext(f) \/ JobPut(f) \/ JobExcept(f) \/ JobFinally(f)

\* -------------------------------------------------- the generator __iter__
\* The caller's first next().  JsonlDatasetReader enters the iterator with
\* a with statement, which ParallelLineIterator does not support.
Start ==
  /\ cpc = "new"
  /\ IF via = "reader"
     THEN cpc' = "ended" /\ outcome' = "raised" /\ raised' = NoContextManager
     ELSE cpc' = "submit" /\ UNCHANGED <<outcome, raised>>
  /\ UNCHANGED <<wvars, avars, params, q, err_q,
                 done_files, stop_event, job, pos, yielded, closeReturned,
                 abandoned>>

\* for path in self.paths: executor.submit(line_feeder, path)
Submit ==
  /\ cpc = "submit"
  /\ LET f == SetMin({g \in Paths : job[g] = "unsubmitted"})
     IN /\ job' = [job EXCEPT ![f] = "queued"]
        /\ cpc' = IF \A g \in Paths : g = f \/ job[g] # "unsubmitted"
                  THEN "loop" ELSE "submit"
  /\ UNCHANGED <<wvars, avars, params, q, err_q,
                 done_files, stop_event, pos, outcome, raised, yielded,
                 closeReturned, abandoned>>

\* the mutation: the error slot is looked at only once the queue is drained
LoopHead_QueueFirst ==
  /\ cpc = "loop"
  /\ IF done_files >= NumFiles
     THEN /\ cpc' = "exit"
          /\ outcome' = "exhausted"
          /\ UNCHANGED <<raised, err_q>>
     ELSE IF err_q # <<>> /\ q = <<>>
     THEN /\ raised' = Head(err_q)
          /\ err_q' = Tail(err_q)
          /\ outcome' = "raised"
          /\ cpc' = "exit"
     ELSE /\ cpc' = "get"
          /\ UNCHANGED <<raised, err_q, outcome>>
  /\ UNCHANGED <<wvars, avars, params, q, done_files, stop_event, job, pos, yielded,
                 closeReturned, abandoned>>

\* while self.done_files < num_files:
\*     if not self.err_q.empty(): raise self.err_q.get()
\* done_files is written by the consumer alone, so the loop test and the
\* look at err_q are one step.
LoopHead ==
  /\ cpc = "loop"
  /\ IF done_files >= NumFiles
     THEN /\ cpc' = "exit"
          /\ outcome' = "exhausted"
          /\ UNCHANGED <<raised, err_q>>
     ELSE IF err_q # <<>>
     THEN /\ raised' = Head(err_q)
          /\ err_q' = Tail(err_q)
          /\ outcome' = "raised"
          /\ cpc' = "exit"
     ELSE /\ cpc' = "get"
          /\ UNCHANGED <<raised, err_q, outcome>>
  /\ UNCHANGED <<wvars, avars, params, q, done_files, stop_event, job, pos, yielded,
                 closeReturned, abandoned>>

\* a queue that hands out its newest item first
Dequeue_Newest(queue) ==
  <<queue[Len(queue)], SubSeq(queue, 1, Len(queue) - 1)>>

\* Queue.get: the oldest item and the queue without it
Dequeue(queue) == <<Head(queue), Tail(queue)>>

\* item = self.q.get(timeout=0.1): a marker is counted, a line is yielded,
\* and on an empty queue the timeout sends the loop round again
Get ==
  /\ cpc = "get"
  /\ IF q = <<>>
     THEN cpc' = "loop" /\ UNCHANGED <<q, done_files, yielded>>
     ELSE LET item == Dequeue(q)[1]
          IN /\ q' = Dequeue(q)[2]
             /\ IF item = SENTINEL
                THEN /\ done_files' = done_files + 1
                     /\ cpc' = "loop"
                     /\ UNCHANGED yielded
                ELSE /\ yielded' = Append(yielded, item)
                     /\ cpc' = "yield"
                     /\ UNCHANGED done_files
  /\ UNCHANGED <<wvars, avars, params, err_q, stop_event, job, pos, outcome, raised,
                 closeReturned, abandoned>>

\* the caller asks for the next line
Resume ==
  /\ cpc = "yield"
  /\ cpc' = "loop"
  /\ UNCHANGED <<wvars, avars, params, q, err_q,
                 done_files, stop_event, job, pos, outcome, raised, yielded,
                 closeReturned, abandoned>>

\* the caller closes the generator instead: GeneratorExit is raised at the
\* yield and leaves through the with block of the executor
GeneratorClose ==
  /\ cpc = "yield"
  /\ cpc' = "exit"
  /\ outcome' = "closed"
  /\ abandoned' = TRUE
  /\ UNCHANGED <<wvars, avars, params, q, err_q,
                 done_files, stop_event, job, pos, raised, yielded,
                 closeReturned>>

\* ThreadPoolExecutor.__exit__: shutdown(wait=True) returns once every
\* submitted job has run to its end
ExecutorExit ==
  /\ cpc = "exit"
  /\ \A f \in Paths : job[f] = "done"
  /\ cpc' = IF via = "wrapper" THEN "finally" ELSE "ended"
  /\ UNCHANGED <<wvars, avars, params, q, err_q,
                 done_files, stop_event, job, pos, outcome, raised, yielded,
                 closeReturned, abandoned>>

\* ParallelLineIterator.close: self._stop_event.set()
CloseIterator ==
  /\ stop_event' = TRUE
  /\ closeReturned' = TRUE

\* multiple_files_lines_iterator: finally: it.close()
WrapperFinally ==
  /\ cpc = "finally"
  /\ CloseIterator
  /\ cpc' = "ended"
  /\ UNCHANGED <<wvars, avars, params, q, err_q,
                 done_files, job, pos, outcome, raised, yielded, abandoned>>

\* the caller of a ParallelLineIterator calls close() itself, which it can
\* do whenever the generator is not running
CallClose ==
  /\ via = "iterator"
  /\ cpc \in {"new", "yield", "ended"}
  /\ ~closeReturned
  /\ CloseIterator
  /\ UNCHANGED <<wvars, avars, params, q, err_q,
                 done_files, job, pos, cpc, outcome, raised, yielded, abandoned>>

Consumer ==
  \/ Start \/ Submit \/ LoopHead \/ Get
  \/ ExecutorExit \/ WrapperFinally

Caller == Resume \/ GeneratorClose \/ CallClose

\* ==================================================== JsonlDatasetReader
\* The reader's files are sorted(directory.rglob(...)): paths 1..NumFiles in
\* that order.  A line of a file is well-formed JSON ("ok") or not ("bad":
\* malformed text or an empty line, on which orjson.loads raises).
LineKinds == {"ok", "bad"}

SeqsUpTo(S, n) == UNION {[1..k -> S] : k \in 0..n}

RECURSIVE SumOfLens(_)
SumOfLens(iters) ==
  IF iters = <<>> THEN 0 ELSE Len(Head(iters)) + SumOfLens(Tail(iters))

\* the directories considered: at most MaxDatasetLines lines over all files
Contents ==
  {c \in [Paths -> SeqsUpTo(LineKinds, MaxDatasetLines)] :
     SumOfLens(c) <= MaxDatasetLines}

\* Python's None: the default limit, the unset _len, zip_longest's fillvalue.
None == <<>>

\* iter_lines(path): the lines of one file, first to last.
iter_lines(c, f) == [k \in 1..Len(c[f]) |-> Line(f, k)]

_line_iterators(c) == [f \in Paths |-> iter_lines(c, f)]

RECURSIVE chain(_)
chain(iters) ==
  IF iters = <<>> THEN <<>> ELSE Head(iters) \o chain(Tail(iters))

MaxOfLens(iters) ==
  IF iters = <<>> THEN 0
  ELSE CHOOSE n \in {Len(iters[i]) : i \in DOMAIN iters} :
         \A i \in DOMAIN iters : Len(iters[i]) <= n

\* itertools.zip_longest(*iterables, fillvalue=None): one group per round,
\* an exhausted iterable contributing None.
zip_longest(iters) ==
  [j \in 1..MaxOfLens(iters) |->
     [i \in DOMAIN iters |->
        IF j <= Len(iters[i]) THEN iters[i][j] ELSE None]]

NotNone(item) == item # None

\* the mutation: a group is cut at its first None
RECURSIVE GroupItems_StopAtNone(_)
GroupItems_StopAtNone(group) ==
  IF group = <<>> \/ Head(group) = None THEN <<>>
  ELSE <<Head(group)>> \o GroupItems_StopAtNone(Tail(group))

\* for item in group: if item is not None: yield item
GroupItems(group) == SelectSeq(group, NotNone)

RECURSIVE FlattenGroups(_)
FlattenGroups(groups) ==
  IF groups = <<>> THEN <<>>
  ELSE GroupItems(Head(groups)) \o FlattenGroups(Tail(groups))

round_robin(iters) == FlattenGroups(zip_longest(iters))

\* _line_stream(): the lines the stream delivers and whether pulling the
\* item after them raises.  The "parallel" generator raises on its first
\* pull: ParallelLineIterator is no context manager.
_line_stream(strategy, c) ==
  CASE strategy = "sequential" ->
         [lines |-> chain(_line_iterators(c)), raises |-> FALSE]
    [] strategy = "round_robin" ->
         [lines |-> round_robin(_line_iterators(c)), raises |-> FALSE]
    [] strategy = "parallel" ->
         [lines |-> <<>>, raises |-> TRUE]

\* itertools.islice(lines, limit): after limit items it pulls nothing more.
islice(s, limit) ==
  IF limit[1] <= Len(s.lines)
    THEN [lines |-> SubSeq(s.lines, 1, limit[1]), raises |-> FALSE]
    ELSE s

\* if limit is not None: lines = itertools.islice(lines, limit)
SlicedLines(s, limit) == IF limit = None THEN s ELSE islice(s, limit)

Decodable(c, line) == c[line[1]][line[2]] = "ok"

\* orjson.loads(line) of a well-formed line: the record that line holds
loads(line) == <<"record", line[1], line[2]>>

\* the mutation: a malformed line ends the loop silently
RECURSIVE DecodeLoop_StopQuietly(_, _, _, _, _)
DecodeLoop_StopQuietly(lines, tailRaises, c, skip, acc) ==
  IF lines = <<>>
    THEN [records |-> acc,
          outcome |-> IF tailRaises THEN "type_error" ELSE "exhausted"]
  ELSE IF Decodable(c, Head(lines))
    THEN DecodeLoop_StopQuietly(Tail(lines), tailRaises, c, skip,
                                Append(acc, loads(Head(lines))))
  ELSE IF skip
    THEN [records |-> acc, outcome |-> "exhausted"]
  ELSE [records |-> acc, outcome |-> "decode_error"]

\* for line in lines: try: yield orjson.loads(line)
\*                     except orjson.JSONDecodeError:
\*                         if not self.skip_on_error: raise
RECURSIVE DecodeLoop(_, _, _, _, _)
DecodeLoop(lines, tailRaises, c, skip, acc) ==
  IF lines = <<>>
    THEN [records |-> acc,
          outcome |-> IF tailRaises THEN "type_error" ELSE "exhausted"]
  ELSE IF Decodable(c, Head(lines))
    THEN DecodeLoop(Tail(lines), tailRaises, c, skip,
                    Append(acc, loads(Head(lines))))
  ELSE IF skip
    THEN DecodeLoop(Tail(lines), tailRaises, c, skip, acc)
  ELSE [records |-> acc, outcome |-> "decode_error"]

\* stream(limit) run to its end: the line stream it read from, the records
\* it yielded, and how it ended.
StreamResult(strategy, c, skip, limit) ==
  LET s == SlicedLines(_line_stream(strategy, c), limit)
      d == DecodeLoop(s.lines, s.raises, c, skip, <<>>)
  IN  [lines |-> s.lines, records |-> d.records, outcome |-> d.outcome]

NoLen == <<"none", 0>>

NoStream == [lines |-> <<>>, records |-> <<>>, outcome |-> "none"]

Limits == {None} \cup {<<n>> : n \in 0..MaxDatasetLines}

\* the records the dataset holds: one per well-formed line
RecordCount(c) ==
  Cardinality({l \in Paths \X (1..MaxDatasetLines) :
                 l[2] <= Len(c[l[1]]) /\ Decodable(c, l)})

\* a full pass meets no line it has to raise on
Readable(c, skip) ==
  skip \/ \A l \in Paths \X (1..MaxDatasetLines) :
            l[2] <= Len(c[l[1]]) => Decodable(c, l)

\* list(reader.stream(limit)); __iter__ is stream() with limit None
stream ==
  /\ calls < MaxCalls
  /\ \E limit \in Limits :
       /\ streamLimit' = limit
       /\ streamOut' = StreamResult(read_strategy, file_lines, skip_on_error,
                                    limit)
  /\ lastCall' = "stream"
  /\ calls' = calls + 1
  /\ lenReturn' = NoLen
  /\ UNCHANGED <<wvars, rvars, file_lines, read_strategy, skip_on_error,
                 len_cache, lenPasses, firstCount>>

\* if self._len is None
LenComputes(cache) == cache = None

\* len(reader)
len ==
  /\ calls < MaxCalls
  /\ LET pass == StreamResult(read_strategy, file_lines, skip_on_error, None)
     IN  IF LenComputes(len_cache)
           THEN /\ lenPasses' = lenPasses + 1
                /\ IF pass.outcome = "exhausted"
                     THEN /\ len_cache' = <<Len(pass.records)>>
                          /\ lenReturn' = <<"value", Len(pass.records)>>
                     ELSE /\ len_cache' = len_cache
                          /\ lenReturn' = <<pass.outcome, 0>>
           ELSE /\ lenReturn' = <<"value", len_cache[1]>>
                /\ UNCHANGED <<len_cache, lenPasses>>
  /\ firstCount' = IF firstCount = None
                     THEN [count |-> RecordCount(file_lines),
                           readable |-> Readable(file_lines, skip_on_error)]
                     ELSE firstCount
  /\ lastCall' = "len"
  /\ calls' = calls + 1
  /\ streamLimit' = None
  /\ streamOut' = NoStream
  /\ UNCHANGED <<wvars, rvars, file_lines, read_strategy, skip_on_error>>

\* Something else rewrites one file of the directory between two calls.
RewriteFile ==
  /\ calls < MaxCalls
  /\ \E f \in Paths, lines \in SeqsUpTo(LineKinds, MaxDatasetLines) :
       /\ lines # file_lines[f]
       /\ SumOfLens(file_lines) - Len(file_lines[f]) + Len(lines)
            <= MaxDatasetLines
       /\ file_lines' = [file_lines EXCEPT ![f] = lines]
  /\ lastCall' = "rewrite"
  /\ calls' = calls + 1
  /\ streamLimit' = None
  /\ streamOut' = NoStream
  /\ lenReturn' = NoLen
  /\ UNCHANGED <<wvars, rvars, read_strategy, skip_on_error, len_cache,
                 lenPasses, firstCount>>

\* ========================================================= specifications
\* the writer on a directory that starts empty
WriterInit ==
  /\ dir = EmptyDir
  /\ max_shard_size \in 1..MaxShardSize
  /\ current_shard = 0
  /\ num_samples = 0
  /\ current_shard_file = FALSE
  /\ written = <<>>
  /\ sessions = 0
  /\ attempts = 0
  /\ lastOp = "none"
  /\ misuse = FALSE
  /\ sessionStart = 0
  \* no parallel read takes place
  /\ numLines = [f \in Paths |-> 0] /\ raises = [f \in Paths |-> FALSE]
  /\ via = "iterator" /\ max_workers = 1 /\ queue_size = 1
  /\ q = <<>> /\ err_q = <<>> /\ done_files = 0 /\ stop_event = FALSE
  /\ job = [f \in Paths |-> "unsubmitted"] /\ pos = [f \in Paths |-> 0]
  /\ cpc = "new" /\ outcome = "none" /\ raised = NoError /\ yielded = <<>>
  /\ closeReturned = FALSE /\ abandoned = FALSE
  \* no JsonlDatasetReader is used
  /\ file_lines = [f \in Paths |-> <<>>] /\ read_strategy = "sequential"
  /\ skip_on_error = FALSE /\ len_cache = None /\ lastCall = "none"
  /\ streamLimit = None /\ streamOut = NoStream
  /\ lenReturn = NoLen /\ calls = 0 /\ lenPasses = 0
  /\ firstCount = None

\* a parallel read of NumFiles files
ReaderInit ==
  /\ numLines \in [Paths -> 0..MaxLines]
  /\ TotalLines(numLines, Paths) <= MaxLines
  /\ raises \in [Paths -> BOOLEAN]
  /\ via \in {"iterator", "wrapper", "reader"}
  /\ max_workers \in 1..NumFiles
  /\ queue_size \in 1..MaxQueue
  /\ q = <<>>
  /\ err_q = <<>>
  /\ done_files = 0
  /\ stop_event = FALSE
  /\ job = [f \in Paths |-> "unsubmitted"]
  /\ pos = [f \in Paths |-> 0]
  /\ cpc = "new"
  /\ outcome = "none"
  /\ raised = NoError
  /\ yielded = <<>>
  /\ closeReturned = FALSE
  /\ abandoned = FALSE
  \* no writer is constructed
  /\ dir = EmptyDir /\ max_shard_size = 1 /\ current_shard = 0
  /\ num_samples = 0 /\ current_shard_file = FALSE /\ written = <<>>
  /\ sessions = 0 /\ attempts = 0 /\ lastOp = "none" /\ misuse = FALSE
  /\ sessionStart = 0
  \* no JsonlDatasetReader is used
  /\ file_lines = [f \in Paths |-> <<>>] /\ read_strategy = "sequential"
  /\ skip_on_error = FALSE /\ len_cache = None /\ lastCall = "none"
  /\ streamLimit = None /\ streamOut = NoStream
  /\ lenReturn = NoLen /\ calls = 0 /\ lenPasses = 0
  /\ firstCount = None

\* a JsonlDatasetReader on a directory of NumFiles files
ApiInit ==
  /\ file_lines \in Contents
  /\ read_strategy \in {"sequential", "round_robin", "parallel"}
  /\ skip_on_error \in BOOLEAN
  /\ len_cache = None
  /\ lastCall = "none"
  /\ streamLimit = None
  /\ streamOut = NoStream
  /\ lenReturn = NoLen
  /\ calls = 0
  /\ lenPasses = 0
  /\ firstCount = None
  \* no writer is constructed
  /\ dir = EmptyDir /\ max_shard_size = 1 /\ current_shard = 0
  /\ num_samples = 0 /\ current_shard_file = FALSE /\ written = <<>>
  /\ sessions = 0 /\ attempts = 0 /\ lastOp = "none" /\ misuse = FALSE
  /\ sessionStart = 0
  \* the parallel line reader is not stepped
  /\ numLines = [f \in Paths |-> 0] /\ raises = [f \in Paths |-> FALSE]
  /\ via = "iterator" /\ max_workers = 1 /\ queue_size = 1
  /\ q = <<>> /\ err_q = <<>> /\ done_files = 0 /\ stop_event = FALSE
  /\ job = [f \in Paths |-> "unsubmitted"] /\ pos = [f \in Paths |-> 0]
  /\ cpc = "new" /\ outcome = "none" /\ raised = NoError /\ yielded = <<>>
  /\ closeReturned = FALSE /\ abandoned = FALSE

ApiNext == stream \/ len \/ RewriteFile

ApiSpec == ApiInit /\ [][ApiNext]_vars

WriterNext == Construct \/ write_line \/ close

\* a shard file as a writer leaves it after k records
RECURSIVE CleanShard(_)
CleanShard(k) ==
  IF k = 0 THEN <<>>
  ELSE IF k = 1 THEN Dumps("r1")
  ELSE CleanShard(k - 1) \o <<NL>> \o Dumps("r1")

\* what directory.glob(pattern) can find when a writer is constructed:
\* shard files under any set of indices, each holding up to max_shard_size
\* records
ExistingDirs ==
  UNION {[S -> {CleanShard(k) : k \in 0..MaxShardSize}] :
           S \in SUBSET (0..MaxShardSize)}

\* the writer on a directory that already holds shard files
ResumeInit ==
  /\ dir \in ExistingDirs
  /\ max_shard_size \in 1..MaxShardSize
  /\ current_shard = 0
  /\ num_samples = 0
  /\ current_shard_file = FALSE
  /\ written = <<>>
  /\ sessions = 0
  /\ attempts = 0
  /\ lastOp = "none"
  /\ misuse = FALSE
  /\ sessionStart = 0
  \* no parallel read takes place
  /\ numLines = [f \in Paths |-> 0] /\ raises = [f \in Paths |-> FALSE]
  /\ via = "iterator" /\ max_workers = 1 /\ queue_size = 1
  /\ q = <<>> /\ err_q = <<>> /\ done_files = 0 /\ stop_event = FALSE
  /\ job = [f \in Paths |-> "unsubmitted"] /\ pos = [f \in Paths |-> 0]
  /\ cpc = "new" /\ outcome = "none" /\ raised = NoError /\ yielded = <<>>
  /\ closeReturned = FALSE /\ abandoned = FALSE
  \* no JsonlDatasetReader is used
  /\ file_lines = [f \in Paths |-> <<>>] /\ read_strategy = "sequential"
  /\ skip_on_error = FALSE /\ len_cache = None /\ lastCall = "none"
  /\ streamLimit = None /\ streamOut = NoStream
  /\ lenReturn = NoLen /\ calls = 0 /\ lenPasses = 0
  /\ firstCount = None

ResumeSpec == ResumeInit /\ [][WriterNext]_vars

WriterSpec == WriterInit /\ [][WriterNext]_vars

ReaderNext ==
  \/ \E f \in Paths : line_feeder(f)
  \/ Consumer
  \/ Caller

ReaderSpec == ReaderInit /\ [][ReaderNext]_vars

\* Every thread that can take a step eventually takes one: the jobs and,
\* while the generator runs, the consumer.  The caller owes nothing.
ThreadFairness ==
  /\ \A f \in Paths : WF_vars(line_feeder(f))
  /\ WF_vars(Consumer)

FairReaderSpec == ReaderSpec /\ ThreadFairness

\* ... and a caller that asks for the next line after every line it got
ConsumingReaderSpec == ReaderSpec /\ ThreadFairness /\ WF_vars(Resume)

\* ------------------------------------------------ reading the directory back
IsRecord(chunk) == chunk # NL

\* the records a shard file holds
Records(content) == SelectSeq(content, IsRecord)

\* records joined by exactly one separator between consecutive records
RECURSIVE Join(_)
Join(recs) ==
  IF Len(recs) = 0 THEN <<>>
  ELSE IF Len(recs) = 1 THEN <<recs[1]>>
  ELSE <<recs[1], NL>> \o Join(Tail(recs))

\* the records of the shards of index in S, concatenated in index order
RECURSIVE RecordsInIndexOrder(_, _)
RecordsInIndexOrder(d, S) ==
  IF S = {} THEN <<>>
  ELSE Records(d[SetMin(S)]) \o RecordsInIndexOrder(d, S \ {SetMin(S)})

CeilDiv(k, m) == (k + m - 1) \div m

\* the directory after one continuous session on an empty directory:
\* construct, write_line for each record in turn, close
RECURSIVE WriteAll(_, _, _)
WriteAll(w, recs, m) ==
  IF Len(recs) = 0 THEN w
  ELSE WriteAll(WriteLineResult(w, Head(recs), m).w, Tail(recs), m)

OneSession(recs, m) == CloseFile(WriteAll(InitializeShard(EmptyDir, m), recs, m)).dir

\* the writer was only constructed, written to while open with serializable
\* records, and closed; it is closed now
CleanAndClosed == ~misuse /\ ~current_shard_file /\ lastOp = "close"

\* ------------------------------------------------------------------ C1
\* C1: every shard file holds at most max_shard_size records, after any
\* sequence of construction, write_line (successful or failing), close and
\* re-construction on the directory.
C1_ShardWithinLimit ==
  \A i \in DOMAIN dir : Len(Records(dir[i])) <= max_shard_size

\* a later session started on a full last shard and wrote into the next one
C1_Witness ==
  /\ sessions >= 2
  /\ sessionStart >= 1
  /\ sessionStart % max_shard_size = 0
  /\ Len(written) > sessionStart
  /\ \E i \in DOMAIN dir :
       /\ Len(Records(dir[i])) = max_shard_size
       /\ i + 1 \in DOMAIN dir
       /\ Len(Records(dir[i + 1])) >= 1

\* ------------------------------------------------------------------ C2
\* C2 (as claimed): from an empty directory, writing k records with
\* max_shard_size m and closing gives exactly ceil(k/m) shard files of
\* indices 0..ceil(k/m)-1, all but the last holding exactly m records, whose
\* records in index order are the records written, for every k and m.
C2_Shape(k) ==
  /\ DOMAIN dir = 0..(CeilDiv(k, max_shard_size) - 1)
  /\ \A i \in DOMAIN dir :
       i < CeilDiv(k, max_shard_size) - 1 => Len(Records(dir[i])) = max_shard_size
  /\ RecordsInIndexOrder(dir, DOMAIN dir) = written

C2_AsClaimed == (sessions = 1 /\ CleanAndClosed) => C2_Shape(Len(written))

\* C2 (amended): the same for every k >= 1; for k = 0 the directory holds
\* the one empty shard of index 0 that construction opened.
C2_RoundTrip ==
  (sessions = 1 /\ CleanAndClosed) =>
     IF Len(written) >= 1
     THEN C2_Shape(Len(written))
     ELSE DOMAIN dir = {0} /\ dir[0] = <<>>

\* one session wrote more than one shard, the last one partly filled
C2_Witness ==
  /\ sessions = 1 /\ CleanAndClosed
  /\ Len(written) > max_shard_size
  /\ Len(written) % max_shard_size # 0
  /\ max_shard_size > 1

\* ------------------------------------------------------------------ C3
\* C3 (as claimed): writing k1 records, closing, constructing a new writer
\* with the same max_shard_size and writing k2 more records leaves the
\* directory as one continuous session writing the k1+k2 records leaves it,
\* for every k1, k2 and m.
C3_AsClaimed ==
  (sessions = 2 /\ CleanAndClosed) => dir = OneSession(written, max_shard_size)

\* the second session started on a last shard that was full and wrote nothing
ResumedOnFullAndIdle ==
  /\ sessionStart >= 1
  /\ sessionStart % max_shard_size = 0
  /\ Len(written) = sessionStart

\* C3 (amended): the equivalence holds unless k2 = 0 and k1 is a positive
\* multiple of m; then the resumed directory is the continuous one plus one
\* empty shard of index k1/m.
C3_ResumeEquivalence ==
  (sessions = 2 /\ CleanAndClosed) =>
     IF ResumedOnFullAndIdle
     THEN dir = OpenAppend(OneSession(written, max_shard_size),
                           sessionStart \div max_shard_size)
     ELSE dir = OneSession(written, max_shard_size)

\* a second session resumed a partly filled shard and went on past it
C3_Witness ==
  /\ sessions = 2 /\ CleanAndClosed
  /\ sessionStart % max_shard_size # 0
  /\ Len(written) - sessionStart >= 2
  /\ Cardinality(DOMAIN dir) >= 2

\* ------------------------------------------------------------------ C4
\* C4: a write_line whose serialization fails leaves the record count and
\* every shard file's content (the set of files included) as they were.
C4_FailedWriteChangesNothing ==
  [][lastOp' = "serialize_error" => (dir' = dir /\ num_samples' = num_samples)]_wvars

\* ------------------------------------------------------------------ C5
\* C5: every shard file's content is its records joined by exactly one
\* separator: no leading, trailing or doubled separator, after any sequence
\* of write_line calls (successful or failing), close and re-construction.
WellFormed(content) == content = Join(Records(content))

C5_NoBlankLine == \A i \in DOMAIN dir : WellFormed(dir[i])

\* ============================================== claims on the parallel read
\* the source of path f has raised
SourceRaised(f) ==
  raises[f] /\ pos[f] = numLines[f] /\ job[f] \in {"except", "finally", "done"}

\* nobody cancelled the read before it ended
NotCancelled == outcome # "closed" /\ (stop_event => via = "wrapper")

\* the lines of all files
AllLines == {l \in Paths \X (1..MaxLines) : l[2] <= numLines[l[1]]}

\* ------------------------------------------------------------------ C6
\* C6: when a job's source raised during a parallel read that is not
\* cancelled, the consumer's iteration ends by raising a worker's error,
\* never normally.
C6_NoErrorSwallowed ==
  (cpc = "ended" /\ NotCancelled /\ \E f \in Paths : SourceRaised(f))
     => (outcome = "raised" /\ \E f \in Paths : raised = SourceError(f))

\* ------------------------------------------------------------------ C7
\* C7: with no source error and no cancellation, a parallel read that has
\* ended has yielded every line of every file exactly once and no
\* completion marker.
C7_EveryLineOnce ==
  (cpc = "ended" /\ NotCancelled /\ \A f \in Paths : ~raises[f])
     => /\ Len(yielded) = Cardinality(AllLines)
        /\ \A l \in AllLines : \E i \in 1..Len(yielded) : yielded[i] = l
        /\ \A i \in 1..Len(yielded) : yielded[i] # SENTINEL

\* ------------------------------------------------------------------ C8
\* C8: the lines of one file are yielded in the order they have in the
\* file, in every interleaving of the jobs.
C8_InFileOrder ==
  \A i, j \in 1..Len(yielded) :
    (i < j /\ yielded[i][1] = yielded[j][1]) => yielded[i][2] < yielded[j][2]

\* two lines of one file were yielded while another file's job ran beside
\* it: a marker was counted before that file's own marker was pushed
C8_Witness ==
  \E f \in Paths :
    /\ \E i, j \in 1..Len(yielded) :
         i < j /\ yielded[i][1] = f /\ yielded[j][1] = f
    /\ job[f] # "done"
    /\ done_files >= 1

\* ------------------------------------------------------------------ C9
\* C9: once close() on the parallel reader has returned, no job is still
\* queued, running or blocked on a push.
C9_CloseWaitsForJobs == closeReturned => \A f \in Paths : Terminated(f)

\* ------------------------------------------------------------------ C10
\* C10: once the consumer has abandoned the read (the generator is closed,
\* close is invoked), every job eventually terminates and the teardown
\* eventually returns.
Cancelled == abandoned /\ (via = "wrapper" \/ stop_event)

TornDown == cpc = "ended" /\ closeReturned /\ \A f \in Paths : Terminated(f)

C10_CancelTerminates == Cancelled ~> TornDown

\* ------------------------------------------------------------------ C15
\* C15: with no cancellation and a caller that keeps consuming, the
\* parallel read eventually ends, normally or by the error reaching the
\* caller, for every worker count and queue capacity.
C15_MergeTerminates == <>(cpc = "ended" \/ abandoned \/ stop_event)

\* ------------------------------------------------------------------ C16
Markers(queue) == Cardinality({i \in 1..Len(queue) : queue[i] = SENTINEL})

ErrorPlaced(f) ==
  raised = SourceError(f) \/ \E i \in 1..Len(err_q) : err_q[i] = SourceError(f)

\* C16: each job that has ended, on whichever exit path, has put exactly
\* one completion marker, every one of which is in the queue or counted by
\* the consumer; a job whose source raised has placed its error before its
\* marker; the consumer's count never exceeds the number of files.
C16_OneMarkerPerJob ==
  /\ Cardinality({f \in Paths : job[f] = "done"}) = done_files + Markers(q)
  /\ done_files <= NumFiles
  /\ \A f \in Paths :
       (SourceRaised(f) /\ job[f] \in {"finally", "done"}) => ErrorPlaced(f)

\* every marker was counted, one of them from a job whose source raised
\* and another from a job that left on the stop flag
C16_Witness ==
  /\ done_files = NumFiles
  /\ \E f \in Paths : job[f] = "done" /\ SourceRaised(f)
  /\ \E f \in Paths : job[f] = "done" /\ pos[f] < numLines[f]

\* ------------------------------------------------------------------ C17
\* C17: the shared queue never holds more items, lines and markers
\* together, than its capacity, and no item is pushed onto a full queue.
C17_Backpressure ==
  /\ [](Len(q) <= queue_size)
  /\ [][Len(q') > Len(q) => Len(q) < queue_size]_vars

\* a job waits to push onto a full queue
C17_Witness ==
  /\ Len(q) = queue_size
  /\ \E f \in Paths : job[f] \in {"put", "finally"}

\* ------------------------------------------------------------------ C18
\* C18: when the consumer comes back to the head of its loop and the error
\* slot holds an error, it raises the error placed there first and yields
\* nothing more, whatever lines are still in the queue.
C18_ErrorBeforeItems ==
  [][/\ (cpc = "loop" /\ cpc' # cpc /\ done_files < NumFiles /\ err_q # <<>>)
        => /\ outcome' = "raised"
           /\ raised' = Head(err_q)
           /\ cpc' = "exit"
           /\ yielded' = yielded
     /\ outcome = "raised" => yielded' = yielded]_vars

\* an error was raised while a line sat unread in the queue and a later
\* error was left in the slot
C18_Witness ==
  /\ outcome = "raised"
  /\ \E f \in Paths : raised = SourceError(f)
  /\ \E i \in 1..Len(q) : q[i] # SENTINEL
  /\ err_q # <<>>

\* ============================================== claims on JsonlDatasetReader
LinesOf(c) == {l \in Paths \X (1..MaxDatasetLines) : l[2] <= Len(c[l[1]])}

\* the position the round-robin rule gives line j of file i: after every
\* line of an earlier round and the round-j lines of the files before i
RoundPosition(c, l) ==
  1 + Cardinality({k \in LinesOf(c) :
                     k[2] < l[2] \/ (k[2] = l[2] /\ k[1] < l[1])})

FullRoundRobinRead ==
  /\ lastCall = "stream"
  /\ read_strategy = "round_robin"
  /\ streamLimit = None

\* C11: a round-robin read emits line j of file i in round j, after the
\* round-j lines of the files before i and before those of the files after
\* i, skipping exhausted files; every line is emitted exactly once.
C11_RoundRobinOrder ==
  FullRoundRobinRead =>
    /\ Len(streamOut.lines) = Cardinality(LinesOf(file_lines))
    /\ \A l \in LinesOf(file_lines) :
         streamOut.lines[RoundPosition(file_lines, l)] = l

\* a round-robin read in which the first file runs out before the second
C11_Witness ==
  /\ FullRoundRobinRead
  /\ Len(file_lines[1]) >= 1
  /\ Len(file_lines[1]) < Len(file_lines[2])
  /\ Len(streamOut.lines) = Len(file_lines[1]) + Len(file_lines[2])

MapLoads(lines) == [k \in 1..Len(lines) |-> loads(lines[k])]

DecodableLine(l) == Decodable(file_lines, l)

MalformedAt(lines) == {k \in 1..Len(lines) : ~DecodableLine(lines[k])}

\* the lines before the first malformed one
CleanPrefix(lines) ==
  IF MalformedAt(lines) = {} THEN lines
  ELSE SubSeq(lines, 1, SetMin(MalformedAt(lines)) - 1)

\* C12: with skip_on_error the reader yields exactly the records of the
\* well-formed lines of the line stream, in order, and goes on past every
\* malformed line; without it the reader yields the records before the
\* first malformed line, raises there, and yields nothing afterwards.
C12_DecodePolicy ==
  lastCall = "stream" =>
    IF skip_on_error
      THEN /\ streamOut.records
                = MapLoads(SelectSeq(streamOut.lines, DecodableLine))
           /\ streamOut.outcome # "decode_error"
      ELSE /\ streamOut.records = MapLoads(CleanPrefix(streamOut.lines))
           /\ streamOut.outcome = "decode_error"
                <=> MalformedAt(streamOut.lines) # {}

\* a skipping read past a malformed line that has a well-formed line on
\* either side
C12_Witness ==
  /\ lastCall = "stream"
  /\ skip_on_error
  /\ \E k \in MalformedAt(streamOut.lines) :
       /\ k > 1 /\ DecodableLine(streamOut.lines[k - 1])
       /\ k < Len(streamOut.lines) /\ DecodableLine(streamOut.lines[k + 1])
  /\ Len(streamOut.records) >= 2
  /\ streamOut.outcome = "exhausted"

\* the records of the whole line stream, whatever the limit
AllDecoded ==
  MapLoads(SelectSeq(_line_stream(read_strategy, file_lines).lines,
                     DecodableLine))

\* C13: stream(limit=N) that raises no error emits exactly the first
\* min(N, R) decoded records, R being the number of decodable lines of the
\* line stream.
C13_LimitCountsRecords ==
  (lastCall = "stream" /\ streamLimit # None
     /\ streamOut.outcome = "exhausted") =>
    streamOut.records
      = SubSeq(AllDecoded, 1, Min2(streamLimit[1], Len(AllDecoded)))

\* C14: the first len() makes one full pass and returns the total record
\* count; every later call returns that same value without another pass,
\* whatever was done to the directory in between.
C14_LenCached ==
  (lastCall = "len" /\ firstCount.readable) =>
    /\ lenReturn = <<"value", firstCount.count>>
    /\ lenPasses = 1

\* ================================================ further claims on the writer
SetMax(S) == CHOOSE x \in S : \A y \in S : y <= x

\* C19: a writer constructed on a directory with shard files, under any
\* set of indices, opens the highest-indexed shard with that shard's record
\* count when the count is below max_shard_size, and otherwise the index
\* after it with count 0; on a directory without shards it opens index 0
\* with count 0.
C19_ResumeAtHighest ==
  [][sessions' = sessions + 1 =>
       IF DOMAIN dir = {}
         THEN current_shard' = 0 /\ num_samples' = 0
         ELSE LET highest == SetMax(DOMAIN dir)
                  count == Len(Records(dir[highest]))
              IN  IF count < max_shard_size
                    THEN current_shard' = highest /\ num_samples' = count
                    ELSE current_shard' = highest + 1 /\ num_samples' = 0]_vars

EmptyShards == {i \in DOMAIN dir : Records(dir[i]) = <<>>}

\* C20: at most one shard file holds no record; if one does it is the
\* highest-indexed shard, and the shard before it, if any, is full.
C20_NoPrematureEmptyShard ==
  /\ Cardinality(EmptyShards) <= 1
  /\ \A e \in EmptyShards :
       /\ e = SetMax(DOMAIN dir)
       /\ e > 0 =>
            /\ e - 1 \in DOMAIN dir
            /\ Len(Records(dir[e - 1])) >= max_shard_size

====
